---- MODULE Spec2Model ----
(***************************************************************************)
(* Model of src/app.py (video2gif): one Streamlit script run of main(),    *)
(* with the helpers ffmpeg_subclip_rotate and get_video_metadata.          *)
(*                                                                         *)
(* Times are held as a number of tenths of a second (the sliders' step is  *)
(* 0.1); the Python floats they stand for are computed exactly by the      *)
(* binary64 operators below, so that the code's float comparisons are      *)
(* evaluated as CPython evaluates them.                                    *)
(***************************************************************************)
EXTENDS Integers, Sequences, FiniteSets, TLC

(***************************************************************************)
(* Natural numbers of arbitrary size: big-endian sequences of base-256     *)
(* digits.  They carry the 53-bit significands of Python's floats, which   *)
(* do not fit TLC's 32-bit integers.                                       *)
(***************************************************************************)
Base == 256

Max(a, b) == IF a > b THEN a ELSE b
Min(a, b) == IF a < b THEN a ELSE b

ZeroDigits(k) == [i \in 1..k |-> 0]

\* digits without leading zeros (0 is the empty sequence)
Norm(d) ==
    LET nz == {i \in 1..Len(d) : d[i] # 0}
    IN  IF nz = {} THEN <<>>
        ELSE SubSeq(d, CHOOSE i \in nz : \A j \in nz : i <= j, Len(d))

FromNat(n) ==
    Norm(<<(n \div (Base * Base * Base)) % Base, (n \div (Base * Base)) % Base,
           (n \div Base) % Base, n % Base>>)

RECURSIVE ToNat(_)
ToNat(d) == IF d = <<>> THEN 0 ELSE Base * ToNat(SubSeq(d, 1, Len(d) - 1)) + d[Len(d)]

\* number of bits of a digit value 0..255
DigitBits(x) == CHOOSE k \in 0..8 : x < 2^k /\ (k = 0 \/ x >= 2^(k - 1))

BitLen(d) == LET n == Norm(d)
             IN  IF n = <<>> THEN 0 ELSE 8 * (Len(n) - 1) + DigitBits(n[1])

\* d * 2^k
ShiftLeft(d, k) ==
    LET r == k % 8
        p == 2^r
        x == <<0>> \o d
        part == [i \in 1..Len(x) |->
                    ((x[i] * p) % Base)
                    + (IF i < Len(x) THEN (x[i + 1] * p) \div Base ELSE 0)]
    IN  Norm(part \o ZeroDigits(k \div 8))

\* d \div 2^k, and whether a non-zero bit was shifted out
ShiftRight(d, k) ==
    LET q == k \div 8
        r == k % 8
        p == 2^r
        keepLen == Max(Len(d) - q, 0)
        x == SubSeq(d, 1, keepLen)
        dropped == \E i \in (keepLen + 1)..Len(d) : d[i] # 0
        part == [i \in 1..keepLen |->
                    (x[i] \div p)
                    + (IF i > 1 THEN (x[i - 1] % p) * (Base \div p) ELSE 0)]
        lostBits == keepLen > 0 /\ x[keepLen] % p # 0
    IN  [q |-> Norm(part), lost |-> dropped \/ lostBits]

\* d + 1
Incr(d) ==
    LET low == {i \in 1..Len(d) : d[i] # Base - 1}
    IN  IF low = {} THEN <<1>> \o ZeroDigits(Len(d))
        ELSE LET k == CHOOSE i \in low : \A j \in low : i >= j
             IN  [i \in 1..Len(d) |-> IF i < k THEN d[i] ELSE IF i = k THEN d[i] + 1 ELSE 0]

PadLeft(d, k) == ZeroDigits(k - Len(d)) \o d

BigLess(a, b) ==
    LET k == Max(Len(a), Len(b))
        x == PadLeft(a, k)
        y == PadLeft(b, k)
        diff == {i \in 1..k : x[i] # y[i]}
    IN  diff # {} /\ LET f == CHOOSE i \in diff : \A j \in diff : i <= j IN x[f] < y[f]

RECURSIVE SubStep(_, _, _, _, _)
SubStep(x, y, i, borrow, acc) ==
    IF i = 0 THEN acc
    ELSE LET v == x[i] - y[i] - borrow
         IN  IF v < 0 THEN SubStep(x, y, i - 1, 1, <<v + Base>> \o acc)
             ELSE SubStep(x, y, i - 1, 0, <<v>> \o acc)

\* a - b, for a >= b
BigSub(a, b) == LET k == Max(Len(a), Len(b))
                IN  Norm(SubStep(PadLeft(a, k), PadLeft(b, k), k, 0, <<>>))

RECURSIVE DivStep(_, _, _, _, _)
DivStep(d, n, i, rem, q) ==
    IF i > Len(d) THEN [q |-> Norm(q), r |-> rem]
    ELSE LET cur == Base * rem + d[i]
         IN  DivStep(d, n, i + 1, cur % n, Append(q, cur \div n))

\* quotient and remainder of d by a small natural n (n < 2^23)
DivSmall(d, n) == DivStep(d, n, 1, 0, <<>>)

(***************************************************************************)
(* Python floats (IEEE-754 binary64, round to nearest, ties to even), for  *)
(* the non-negative finite values the program computes with: m * 2^e with  *)
(* m a natural number of at most 53 bits.                                  *)
(***************************************************************************)
Mant == 53

RoundToDouble(m, sticky, e) ==
    LET len == BitLen(m)
    IN  IF len = 0 THEN [m |-> <<>>, e |-> 0]
        ELSE IF len <= Mant THEN [m |-> Norm(m), e |-> e]
        ELSE LET k == len - Mant
                 g == ShiftRight(m, k - 1)
                 guard == g.q[Len(g.q)] % 2
                 keep == ShiftRight(g.q, 1).q
                 rest == sticky \/ g.lost
                 up == guard = 1 /\ (rest \/ keep[Len(keep)] % 2 = 1)
             IN  [m |-> IF up THEN Incr(keep) ELSE keep, e |-> e + k]

\* float(n) for an int n
FloatOfInt(n) == RoundToDouble(FromNat(n), FALSE, 0)

\* a / b on ints (true division, correctly rounded)
TrueDiv(a, b) ==
    LET sh == 8 * (7 + Len(FromNat(b)))
        d == DivSmall(FromNat(a) \o ZeroDigits(sh \div 8), b)
    IN  RoundToDouble(d.q, d.r # 0, -sh)

AlignTo(x, e) == ShiftLeft(x.m, x.e - e)

\* x - y on floats, for x >= y
FloatSub(x, y) == LET e == Min(x.e, y.e)
                  IN  RoundToDouble(BigSub(AlignTo(x, e), AlignTo(y, e)), FALSE, e)

\* x < y on floats
FloatLess(x, y) == LET e == Min(x.e, y.e) IN BigLess(AlignTo(x, e), AlignTo(y, e))

\* int(x): truncation
IntOfFloat(x) == IF x.e >= 0 THEN ToNat(ShiftLeft(x.m, x.e))
                 ELSE ToNat(ShiftRight(x.m, -x.e).q)

\* the float nearest to t/10: what a slider with step 0.1 returns at its t-th
\* stop, and what float("<t/10>") parses to
FloatOfTenths(t) == TrueDiv(t, 10)

(***************************************************************************)
(* Values of the program.                                                  *)
(***************************************************************************)
\* Python's None, where a string is expected
None == "<None>"

\* truth value of a str-or-None (`if vf_filter:`)
Truthy(v) == v # None /\ v # ""

\* dict.get(k, default)
Get(d, k, default) == IF k \in DOMAIN d THEN d[k] ELSE default

EmptyDict == <<>>

Digit == <<"0", "1", "2", "3", "4", "5", "6", "7", "8", "9">>

RECURSIVE NatStr(_)
NatStr(n) == IF n < 10 THEN Digit[n + 1] ELSE NatStr(n \div 10) \o Digit[(n % 10) + 1]

\* str(x) of the float nearest to t/10: its shortest repr, "<int>.<digit>"
StrOfTenths(t) == NatStr(t \div 10) \o "." \o Digit[(t % 10) + 1]

\* `size > 100 * 1024 * 1024`
SizeLimit == 100 * 1024 * 1024
SizeExceedsOrEquals(size) == size >= SizeLimit
SizeExceeds(size) == size > SizeLimit

(***************************************************************************)
(* ffmpeg_subclip_rotate                                                   *)
(***************************************************************************)
VfFilterMirrored(rotation) ==
    IF rotation = 90 THEN "transpose=1"
    ELSE IF rotation = 180 THEN "hflip,vflip"
    ELSE IF rotation = 270 THEN "transpose=2"
    ELSE None

VfFilter(rotation) ==
    IF rotation = 90 THEN "transpose=2"
    ELSE IF rotation = 180 THEN "hflip,vflip"
    ELSE IF rotation = 270 THEN "transpose=1"
    ELSE None

FfmpegCmdDuration(input_path, output_path, start, end, rotation) ==
    <<"ffmpeg", "-y", "-i", input_path, "-ss", StrOfTenths(start), "-t", StrOfTenths(end)>>
    \o (IF Truthy(VfFilter(rotation)) THEN <<"-vf", VfFilter(rotation)>> ELSE <<>>)
    \o <<"-c:v", "libx264", "-c:a", "aac", "-metadata", "rotate=0",
         "-map_metadata", "-1", output_path>>

FfmpegCmd(input_path, output_path, start, end, rotation) ==
    <<"ffmpeg", "-y", "-i", input_path, "-ss", StrOfTenths(start), "-to", StrOfTenths(end)>>
    \o (IF Truthy(VfFilter(rotation)) THEN <<"-vf", VfFilter(rotation)>> ELSE <<>>)
    \o <<"-c:v", "libx264", "-c:a", "aac", "-metadata", "rotate=0",
         "-map_metadata", "-1", output_path>>

(***************************************************************************)
(* get_video_metadata                                                      *)
(***************************************************************************)
\* (camera_make + " " + camera_model).strip(), for tags without outer blanks
DeviceName(camera_make, camera_model) ==
    IF camera_model = "" THEN camera_make
    ELSE IF camera_make = "" THEN camera_model
    ELSE camera_make \o " " \o camera_model

\* the first stream whose codec_type is "video", as <<width, height>>
FirstVideo(streams) ==
    LET vs == {i \in 1..Len(streams) : Get(streams[i], "codec_type", None) = "video"}
    IN  IF vs = {} THEN <<0, 0>>
        ELSE LET s == streams[CHOOSE i \in vs : \A j \in vs : i <= j]
             IN  <<Get(s, "width", 0), Get(s, "height", 0)>>

\* the dict built from the parsed ffprobe output (lines 64..91)
MetadataOf(data) ==
    LET fmt == Get(data, "format", EmptyDict)
        tags == Get(fmt, "tags", EmptyDict)
        size_bytes == Get(fmt, "size", 0)
        dims == FirstVideo(Get(data, "streams", <<>>))
    IN  [device_name |-> DeviceName(Get(tags, "com.apple.quicktime.make", "Unknown"),
                                    Get(tags, "com.apple.quicktime.model", "")),
         width |-> dims[1],
         height |-> dims[2],
         filesize_mb |-> TrueDiv(size_bytes, 1024 * 1024),
         duration |-> Get(fmt, "duration", 0)]

(***************************************************************************)
(* main: the trim-range checks and the downscale arithmetic                *)
(***************************************************************************)
\* `end_time < start_time`
EndBeforeStart(start, end) == FloatLess(FloatOfTenths(end), FloatOfTenths(start))

\* `(end_time - start_time) > 15`, evaluated when end_time >= start_time
TooLongUnchecked(start, end) == FALSE
TooLong(start, end) ==
    FloatLess(FloatOfInt(15), FloatSub(FloatOfTenths(end), FloatOfTenths(start)))

\* `subclip_fixed.w > 240`
ResizeWidth == 240
NeedsResize(w) == w > ResizeWidth

\* `int(subclip_fixed.h * 240 / subclip_fixed.w)`
NewHeightRounded(w, h) == (2 * h * ResizeWidth + w) \div (2 * w)
NewHeight(w, h) == IntOfFloat(TrueDiv(h * ResizeWidth, w))

(***************************************************************************)
(* Inputs of one script run, drawn from small sets.                        *)
(***************************************************************************)
\* longest probed duration, in tenths of a second
MaxDuration == 165

\* uploaded sizes, in bytes
Sizes == {1, SizeLimit, SizeLimit + 1}

\* what mp.VideoFileClip reports: a rotation attribute, or none
ClipObjects == {[has |-> TRUE, rotation |-> r] : r \in {0, 90, 180, 270, 45}}
               \cup {[has |-> FALSE, rotation |-> 0]}

AppleTags == ("com.apple.quicktime.make" :> "Apple") @@ ("com.apple.quicktime.model" :> "iPhone 12")

\* what ffprobe can answer for an upload of `size` bytes: its exit status,
\* whether its stdout is JSON, and the parsed JSON
ProbeResults(size) ==
    { [returncode |-> 1, json |-> FALSE, data |-> EmptyDict],
      [returncode |-> 0, json |-> FALSE, data |-> EmptyDict],
      [returncode |-> 0, json |-> TRUE, data |-> EmptyDict],
      [returncode |-> 0, json |-> TRUE,
       data |-> [format |-> [duration |-> MaxDuration, size |-> size, tags |-> AppleTags],
                 streams |-> <<[codec_type |-> "audio"],
                               [codec_type |-> "video", width |-> 1920, height |-> 1080]>>]],
      [returncode |-> 0, json |-> TRUE,
       data |-> [format |-> [duration |-> 100, size |-> size],
                 streams |-> <<[codec_type |-> "video", width |-> 640, height |-> 360]>>]],
      [returncode |-> 0, json |-> TRUE,
       data |-> [format |-> [duration |-> 30, size |-> size],
                 streams |-> <<[codec_type |-> "audio"]>>]] }

\* slider stops the user is offered, in tenths: some of 0.0, 0.1, .. duration
StopSamples == {0, 1, 3, 11, 16, 50, 150, 151, 153, 161}
SliderStops(duration) == {t \in StopSamples : t <= duration} \cup {duration}

\* width and height of the transcoded clip, as mp.VideoFileClip reads them
ClipWidths == {2, 238, 240, 242, 482, 640, 1080, 1920, 3840}
ClipHeights == {2, 136, 360, 1080, 1920}
ClipDims == ClipWidths \X ClipHeights

\* tempfile.NamedTemporaryFile(delete=False, suffix=...): a name not in use
TmpNames == {"a", "b", "c"}
TmpPath(n, suffix) == "/tmp/tmp" \o n \o suffix
MkTemp(fs, suffix) ==
    TmpPath(CHOOSE n \in TmpNames : \A x \in {".mp4", ".gif"} : TmpPath(n, x) \notin fs, suffix)

(***************************************************************************)
(* State of one script run of main().                                      *)
(***************************************************************************)
VARIABLES
    pc,             \* position in main(); "Idle" once the run is over
    ended,          \* how the run ended
    size,           \* line 118
    files,          \* the temporary files on disk
    input_path,     \* line 127
    rotation,       \* line 132
    result,         \* ffprobe's CompletedProcess, line 60
    probe_calls,    \* number of ffprobe invocations
    meta, device_name, width, height, filesize_mb, duration_sec,  \* lines 136..141
    start_time, end_time,  \* lines 166, 167
    fixed_mp4_path, \* line 191
    ffmpeg_calls,   \* the command lines subprocess.run was given at line 43
    subclip_fixed,  \* lines 201..204: [w, h]
    gif_temp_path,  \* line 207
    gif_calls,      \* the write_gif invocations, line 210
    errors,         \* st.error messages
    shown,          \* what st.image / st.download_button were given
    raised          \* the exception that left main(), or None

probeVars == <<result, probe_calls, meta, device_name, width, height, filesize_mb, duration_sec>>
trimVars == <<start_time, end_time>>
exportVars == <<fixed_mp4_path, ffmpeg_calls, subclip_fixed, gif_temp_path, gif_calls, shown>>
vars == <<pc, ended, size, files, input_path, rotation, probeVars, trimVars, exportVars,
          errors, raised>>

Init ==
    /\ pc = "Start"
    /\ ended = "running"
    /\ size = 0
    /\ files = {}
    /\ input_path = None
    /\ rotation = 0
    /\ result = [returncode |-> 0, json |-> FALSE, data |-> EmptyDict]
    /\ probe_calls = 0
    /\ meta = EmptyDict
    /\ device_name = None
    /\ width = 0
    /\ height = 0
    /\ filesize_mb = FloatOfInt(0)
    /\ duration_sec = 0
    /\ start_time = 0
    /\ end_time = 0
    /\ fixed_mp4_path = None
    /\ ffmpeg_calls = <<>>
    /\ subclip_fixed = [w |-> 0, h |-> 0]
    /\ gif_temp_path = None
    /\ gif_calls = <<>>
    /\ errors = <<>>
    /\ shown = <<>>
    /\ raised = None

\* main() returns
Return(how) == pc' = "Idle" /\ ended' = how /\ raised' = None

\* an exception leaves main()
Raise(exc) == pc' = "Idle" /\ ended' = "raised" /\ raised' = exc

\* lines 241, 242: nothing is uploaded
NoUpload ==
    /\ pc = "Start"
    /\ Return("no_upload")
    /\ UNCHANGED <<size, files, input_path, rotation, probeVars, trimVars, exportVars, errors>>

\* lines 103..123: the size check
Upload ==
    /\ pc = "Start"
    /\ \E sz \in Sizes :
          /\ size' = sz
          /\ IF SizeExceeds(sz)
             THEN /\ errors' = Append(errors, "File size exceeds 100MB.")
                  /\ Return("size_rejected")
             ELSE /\ pc' = "SizeChecked"
                  /\ UNCHANGED <<errors, ended, raised>>
    /\ UNCHANGED <<files, input_path, rotation, probeVars, trimVars, exportVars>>

\* lines 125..128: the upload is copied to a temporary file
SaveInput ==
    /\ pc = "SizeChecked"
    /\ input_path' = MkTemp(files, ".mp4")
    /\ files' = files \cup {input_path'}
    /\ pc' = "Saved"
    /\ UNCHANGED <<ended, size, rotation, probeVars, trimVars, exportVars, errors, raised>>

\* lines 130..133: rotation = getattr(clip, 'rotation', 0)
ReadRotation ==
    /\ pc = "Saved"
    /\ \E clip \in ClipObjects : rotation' = IF clip.has THEN clip.rotation ELSE 0
    /\ pc' = "RotationRead"
    /\ UNCHANGED <<ended, size, files, input_path, probeVars, trimVars, exportVars, errors, raised>>

\* lines 135..148 with get_video_metadata (lines 54..91)
Probe ==
    /\ pc = "RotationRead"
    /\ \E res \in ProbeResults(size) :
          /\ result' = res
          /\ probe_calls' = probe_calls + 1
          /\ IF res.returncode = 0 /\ ~res.json
             THEN /\ Raise("JSONDecodeError")
                  /\ UNCHANGED <<meta, device_name, width, height, filesize_mb, duration_sec>>
             ELSE /\ meta' = IF res.returncode # 0 THEN EmptyDict ELSE MetadataOf(res.data)
                  /\ device_name' = Get(meta', "device_name", "Unknown")
                  /\ width' = Get(meta', "width", 0)
                  /\ height' = Get(meta', "height", 0)
                  /\ filesize_mb' = Get(meta', "filesize_mb", FloatOfInt(0))
                  /\ duration_sec' = Get(meta', "duration", 0)
                  /\ pc' = "Probed"
                  /\ UNCHANGED <<ended, raised>>
    /\ UNCHANGED <<size, files, input_path, rotation, trimVars, exportVars, errors>>

\* lines 165..174: the two sliders and the trim-range checks
SelectRange ==
    /\ pc = "Probed"
    /\ \E s, e \in SliderStops(duration_sec) :
          /\ start_time' = s
          /\ end_time' = e
          /\ IF EndBeforeStart(s, e)
             THEN /\ errors' = Append(errors, "End time must be >= start time.")
                  /\ Return("range_rejected")
             ELSE IF TooLong(s, e)
             THEN /\ errors' = Append(errors, "Please select a duration of 15s or less.")
                  /\ Return("range_rejected")
             ELSE /\ pc' = "Validated"
                  /\ UNCHANGED <<errors, ended, raised>>
    /\ UNCHANGED <<size, files, input_path, rotation, probeVars, exportVars>>

\* line 177: st.button("Generate GIF")
Button ==
    /\ pc = "Validated"
    /\ \E pressed \in BOOLEAN : pc' = IF pressed THEN "Pressed" ELSE "Cleanup"
    /\ UNCHANGED <<ended, size, files, input_path, rotation, probeVars, trimVars, exportVars,
                   errors, raised>>

\* lines 190..199 with ffmpeg_subclip_rotate (lines 19..43)
Transcode ==
    /\ pc = "Pressed"
    /\ fixed_mp4_path' = MkTemp(files, ".mp4")
    /\ files' = files \cup {fixed_mp4_path'}
    /\ ffmpeg_calls' = Append(ffmpeg_calls,
                              FfmpegCmd(input_path, fixed_mp4_path', start_time, end_time, rotation))
    /\ \E returncode \in {0, 1} :
          IF returncode # 0
          THEN Raise("CalledProcessError")
          ELSE pc' = "Transcoded" /\ UNCHANGED <<ended, raised>>
    /\ UNCHANGED <<size, input_path, rotation, probeVars, trimVars, subclip_fixed,
                   gif_temp_path, gif_calls, shown, errors>>

\* line 201: subclip_fixed = mp.VideoFileClip(fixed_mp4_path)
OpenSubclip ==
    /\ pc = "Transcoded"
    /\ \E d \in ClipDims : subclip_fixed' = [w |-> d[1], h |-> d[2]]
    /\ pc' = "Opened"
    /\ UNCHANGED <<ended, size, files, input_path, rotation, probeVars, trimVars,
                   fixed_mp4_path, ffmpeg_calls, gif_temp_path, gif_calls, shown, errors, raised>>

\* lines 202..204
Resize ==
    /\ pc = "Opened"
    /\ subclip_fixed' = IF NeedsResize(subclip_fixed.w)
                        THEN [w |-> ResizeWidth, h |-> NewHeight(subclip_fixed.w, subclip_fixed.h)]
                        ELSE subclip_fixed
    /\ pc' = "Resized"
    /\ UNCHANGED <<ended, size, files, input_path, rotation, probeVars, trimVars,
                   fixed_mp4_path, ffmpeg_calls, gif_temp_path, gif_calls, shown, errors, raised>>

\* lines 206..217: the GIF is encoded by moviepy's ffmpeg writer
WriteGif ==
    /\ pc = "Resized"
    /\ gif_temp_path' = MkTemp(files, ".gif")
    /\ files' = files \cup {gif_temp_path'}
    /\ gif_calls' = Append(gif_calls,
                           [path |-> gif_temp_path', w |-> subclip_fixed.w, h |-> subclip_fixed.h,
                            fps |-> 5, program |-> "ffmpeg", opt |-> "nq", colors |-> 32])
    /\ \E ok \in BOOLEAN :
          IF ok THEN pc' = "GifWritten" /\ UNCHANGED <<ended, raised>>
          ELSE Raise("IOError")
    /\ UNCHANGED <<size, input_path, rotation, probeVars, trimVars, fixed_mp4_path,
                   ffmpeg_calls, subclip_fixed, shown, errors>>

\* lines 219..235: the GIF is displayed and offered, then both outputs removed
DisplayGif ==
    /\ pc = "GifWritten"
    /\ shown' = shown \o <<[widget |-> "image", data |-> gif_temp_path],
                           [widget |-> "download_button", data |-> gif_temp_path]>>
    /\ files' = (files \ {gif_temp_path}) \ {fixed_mp4_path}
    /\ pc' = "Cleanup"
    /\ UNCHANGED <<ended, size, input_path, rotation, probeVars, trimVars, fixed_mp4_path,
                   ffmpeg_calls, subclip_fixed, gif_temp_path, gif_calls, errors, raised>>

\* lines 237..239
Cleanup ==
    /\ pc = "Cleanup"
    /\ files' = files \ {input_path}
    /\ Return("completed")
    /\ UNCHANGED <<size, input_path, rotation, probeVars, trimVars, exportVars, errors>>

Next ==
    \/ NoUpload
    \/ Upload
    \/ SaveInput
    \/ ReadRotation
    \/ Probe
    \/ SelectRange
    \/ Button
    \/ Transcode
    \/ OpenSubclip
    \/ Resize
    \/ WriteGif
    \/ DisplayGif
    \/ Cleanup

Spec == Init /\ [][Next]_vars
(***************************************************************************)
(* Properties.                                                             *)
(***************************************************************************)
HasArg(c, a) == \E i \in 1..Len(c) : c[i] = a
HasPair(c, a, b) == \E i \in 1..(Len(c) - 1) : c[i] = a /\ c[i + 1] = b
Messages == {errors[i] : i \in 1..Len(errors)}
ExportStarted == fixed_mp4_path # None
HasVideoStream(data) ==
    \E i \in 1..Len(Get(data, "streams", <<>>)) :
        Get(Get(data, "streams", <<>>)[i], "codec_type", None) = "video"

\* C1: every encoder command line carries the video filter of the table:
\* none for hint 0, transpose=2 (90 degrees counter-clockwise) for 90,
\* hflip,vflip for 180, transpose=1 (90 degrees clockwise) for 270; a
\* dimension-swapping filter is chosen exactly for 90 and 270; any other
\* hint yields a command without -vf, and the command is still issued.
OrientationTable ==
    \A i \in 1..Len(ffmpeg_calls) :
        LET c == ffmpeg_calls[i]
        IN  /\ rotation = 0 => ~HasArg(c, "-vf")
            /\ rotation = 90 => HasPair(c, "-vf", "transpose=2")
            /\ rotation = 180 => HasPair(c, "-vf", "hflip,vflip")
            /\ rotation = 270 => HasPair(c, "-vf", "transpose=1")
            /\ rotation \notin {0, 90, 180, 270} => ~HasArg(c, "-vf")
            /\ (HasPair(c, "-vf", "transpose=1") \/ HasPair(c, "-vf", "transpose=2"))
                  <=> rotation \in {90, 270}
            /\ Cardinality({j \in 1..Len(c) : c[j] = "-vf"}) <= 1

OrientationTableWitness ==
    /\ pc = "Transcoded"
    /\ rotation = 270
    /\ HasPair(ffmpeg_calls[1], "-vf", "transpose=1")

\* C2: once the range is selected, it is accepted exactly when
\* end >= start and end - start <= 15 s (times in tenths of a second), the
\* boundaries end = start and end - start = 15 s included.
TrimValidation ==
    (pc = "Validated" \/ ended = "range_rejected") =>
        /\ (pc = "Validated") <=> (end_time >= start_time /\ end_time - start_time <= 15 * 10)
        /\ ended = "range_rejected" => errors # <<>>

\* C3: when the encoder exits non-zero, no GIF is displayed or offered and
\* the trimmed intermediate MP4 of the failed export is gone.
EncoderFailureCleansUp ==
    raised = "CalledProcessError" => shown = <<>> /\ fixed_mp4_path \notin files

\* C4: once the run is over (Idle), none of the files it created (input
\* copy, trimmed MP4, GIF) is left, whichever branch it took.
TransientsDeletedAtIdle ==
    pc = "Idle" => files \cap {input_path, fixed_mp4_path, gif_temp_path} = {}

\* C5: an upload of more than 100 MiB ends the run with the size message,
\* with no temporary file written and neither ffprobe nor an encoder
\* invoked; an upload of at most 100 MiB is never rejected for its size.
SizeCeiling ==
    (pc # "Start" /\ ended # "no_upload") =>
        IF size > 100 * 1024 * 1024
        THEN /\ pc = "Idle" /\ ended = "size_rejected"
             /\ errors = <<"File size exceeds 100MB.">>
             /\ files = {} /\ input_path = None
             /\ probe_calls = 0 /\ ffmpeg_calls = <<>> /\ gif_calls = <<>>
        ELSE /\ ended # "size_rejected"
             /\ "File size exceeds 100MB." \notin Messages

SizeCeilingWitness ==
    size = 100 * 1024 * 1024 + 1 /\ ended = "size_rejected"

\* C6: an encoder (ffmpeg transcode or GIF encode) has been invoked only if
\* the size check passed, the selected range is valid and no validation
\* message was surfaced; a rejected range surfaces a message, keeps what
\* was probed and starts no export in that run.
EncoderOnlyAfterValidation ==
    /\ (ffmpeg_calls # <<>> \/ gif_calls # <<>>) =>
          /\ size <= 100 * 1024 * 1024
          /\ start_time <= end_time /\ end_time - start_time <= 15 * 10
          /\ errors = <<>>
    /\ ended = "range_rejected" =>
          /\ errors # <<>>
          /\ probe_calls = 1
          /\ ~ExportStarted /\ ffmpeg_calls = <<>> /\ gif_calls = <<>> /\ shown = <<>>

EncoderOnlyAfterValidationWitness ==
    /\ ended = "range_rejected"
    /\ end_time - start_time > 15 * 10
    /\ errors = <<"Please select a duration of 15s or less.">>

\* C7: the downscale step resizes exactly when the clip is wider than 240;
\* the target is then (240, floor(h * 240 / w)), whose height is within one
\* pixel below h * 240 / w; a clip of width <= 240 keeps its dimensions.
DownscaleRule ==
    [][pc = "Opened" =>
          LET w == subclip_fixed.w
              h == subclip_fixed.h
          IN  IF w > 240
              THEN /\ subclip_fixed' = [w |-> 240, h |-> (h * 240) \div w]
                   /\ 0 <= h * 240 - w * subclip_fixed'.h
                   /\ h * 240 - w * subclip_fixed'.h < w
              ELSE subclip_fixed' = subclip_fixed]_vars

DownscaleRuleWitness ==
    pc = "Resized" /\ subclip_fixed = [w |-> 240, h |-> 426] /\ ExportStarted

\* C8: when ffprobe exits non-zero, prints something that is not JSON, or
\* reports no video stream, the run ends with a failure instead of going on
\* with a descriptor.
ProbeFailureReported ==
    (/\ probe_calls > 0
     /\ \/ result.returncode # 0
        \/ ~result.json
        \/ ~HasVideoStream(result.data))
    => pc = "Idle" /\ ended = "raised"

\* C9: an export issues exactly one ffmpeg command, and that command has
\* -ss <start> and -to <end> of the chosen range, re-encodes the video
\* (libx264, not copy), sets rotate=0, strips metadata (-map_metadata -1),
\* has -vf exactly when the hint is 90, 180 or 270, reads the input path
\* only after -i and writes to a different path.
SingleTranscodeCommand ==
    /\ Len(ffmpeg_calls) <= 1
    /\ ~ExportStarted => ffmpeg_calls = <<>>
    /\ (\/ pc \in {"Transcoded", "Opened", "Resized", "GifWritten"}
        \/ gif_calls # <<>> \/ shown # <<>> \/ raised = "CalledProcessError")
          => Len(ffmpeg_calls) = 1
    /\ \A i \in 1..Len(ffmpeg_calls) :
          LET c == ffmpeg_calls[i]
          IN  /\ c[1] = "ffmpeg"
              /\ HasPair(c, "-ss", StrOfTenths(start_time))
              /\ HasPair(c, "-to", StrOfTenths(end_time))
              /\ ~HasArg(c, "-t")
              /\ HasPair(c, "-c:v", "libx264") /\ ~HasPair(c, "-c:v", "copy")
              /\ HasPair(c, "-metadata", "rotate=0")
              /\ HasPair(c, "-map_metadata", "-1")
              /\ HasArg(c, "-vf") <=> rotation \in {90, 180, 270}
              /\ HasPair(c, "-i", input_path)
              /\ \A j \in 1..Len(c) : c[j] = input_path => j > 1 /\ c[j - 1] = "-i"
              /\ c[Len(c)] = fixed_mp4_path /\ fixed_mp4_path # input_path

SingleTranscodeCommandWitness ==
    /\ pc = "GifWritten"
    /\ rotation = 90
    /\ start_time = 3 /\ end_time = 153
    /\ HasPair(ffmpeg_calls[1], "-ss", "0.3") /\ HasPair(ffmpeg_calls[1], "-to", "15.3")

\* C10: every GIF encode gets a width of at most 240 and a height of at
\* least 1.
GifDimsPositive ==
    \A i \in 1..Len(gif_calls) : gif_calls[i].w <= 240 /\ gif_calls[i].h >= 1
====
